---- MODULE Spec2Model ----
(***************************************************************************)
(* A model of the mzQC viewer (app.py): the parser parse_mzqc, the chart   *)
(* selector create_plot_from_metric, the two rendering functions and the   *)
(* script body main, which Streamlit runs from the top after every user    *)
(* interaction.                                                            *)
(*                                                                         *)
(* JSON values, as json.load builds them, are records tagged with the      *)
(* Python type of the value:                                               *)
(*   [t |-> "int", n], [t |-> "float", n], [t |-> "bool", n]  numbers and  *)
(*                        booleans (bool is a subclass of int in Python;   *)
(*                        a float is stood for by its integer value),      *)
(*   [t |-> "str", s], [t |-> "null"],                                     *)
(*   [t |-> "list", items], [t |-> "dict", keys, items]                    *)
(* A dict keeps its keys in insertion order, as Python's dict does.        *)
(***************************************************************************)
EXTENDS Integers, Sequences, FiniteSets, TLC

VARIABLES
    metric,         \* the argument of create_plot_from_metric
    chart,          \* what create_plot_from_metric returned for it
    json_data,      \* the argument of parse_mzqc
    parsed_data,    \* what parse_mzqc returned (or that it raised)
    uploaded_file,  \* the file held by the st.file_uploader widget
    offered,        \* the file the user last offered to the widget
    selection,      \* the st.selectbox widgets' state, one per quality type
    screen          \* the elements the last run of main() put on the page

vars == <<metric, chart, json_data, parsed_data,
          uploaded_file, offered, selection, screen>>

(***************************************************************************)
(* JSON values                                                             *)
(***************************************************************************)
Int_(n)   == [t |-> "int", n |-> n]
Float_(n) == [t |-> "float", n |-> n]
Bool_(b)  == [t |-> "bool", n |-> IF b THEN 1 ELSE 0]
Str(s)    == [t |-> "str", s |-> s]
Null      == [t |-> "null"]
List(xs)  == [t |-> "list", items |-> xs]
Dict(ks, xs) == [t |-> "dict", keys |-> ks, items |-> xs]
EmptyDict == Dict(<<>>, <<>>)
EmptyList == List(<<>>)
\* a float64 cell holding NaN: what pandas makes of None in a numeric column
NaN       == [t |-> "nan"]

\* isinstance(x, (int, float)): True for int, float and, bool being a
\* subclass of int, for True and False
IsIntOrFloat(x) == x.t \in {"int", "float", "bool", "nan"}
\* isinstance(x, str), isinstance(x, list), isinstance(x, dict)
IsStr(x)  == x.t = "str"
IsList(x) == x.t = "list"
IsDict(x) == x.t = "dict"

\* all(pred(x) for x in xs)
AllIntOrFloat(xs) == \A i \in 1..Len(xs) : IsIntOrFloat(xs[i])
AllStr(xs)        == \A i \in 1..Len(xs) : IsStr(xs[i])

HasKey(d, k) == \E i \in 1..Len(d.keys) : d.keys[i] = k
\* d[k] for a key d holds
Item(d, k) == d.items[CHOOSE i \in 1..Len(d.keys) : d.keys[i] = k]
\* d.get(k, default) for a dict d
Get(d, k, default) == IF HasKey(d, k) THEN Item(d, k) ELSE default

(***************************************************************************)
(* create_plot_from_metric                                                 *)
(***************************************************************************)
\* Python's None, returned when no chart applies
None == [mark |-> "none"]

\* alt.Chart(df).mark_<mark>().encode(x, y).properties(title): the data
\* frame (its column names and rows), the mark, the two axes and the title
Chart(mark, columns, rows, x, y, title) ==
    [mark |-> mark, columns |-> columns, rows |-> rows,
     x |-> x, y |-> y, title |-> title]

IndexRows_FromOne(xs) == [i \in 1..Len(xs) |-> <<Int_(i), xs[i]>>]
\* range(len(xs)) zipped with xs: the rows of the "Index"/"Value" frame
IndexRows(xs) == [i \in 1..Len(xs) |-> <<Int_(i - 1), xs[i]>>]

\* the rows of a frame built from two columns of the same length
ZipRows(cs, vs) == [i \in 1..Len(cs) |-> <<cs[i], vs[i]>>]

\* list(metric_value.items()): one (key, value) row per entry, in order
ItemRows(d) == [i \in 1..Len(d.keys) |-> <<Str(d.keys[i]), d.items[i]>>]

\* pd.DataFrame(rows, columns=[...]) infers a dtype per column: a "Value"
\* column holding only numbers and None, with at least one number, becomes
\* float64 and its None cells NaN; any other column keeps its objects
CoercesToFloat(rows) ==
    /\ \A i \in 1..Len(rows) : rows[i][2].t \in {"int", "float", "null"}
    /\ \E i \in 1..Len(rows) : rows[i][2].t \in {"int", "float"}
DataFrameRows(rows) ==
    IF CoercesToFloat(rows)
    THEN [i \in 1..Len(rows) |->
            <<rows[i][1], IF rows[i][2].t = "null" THEN NaN ELSE rows[i][2]>>]
    ELSE rows

ScalarChart_ColumnAsLabel(metric_name, metric_value) ==
    Chart("bar", <<"Metric", "Value">>, << <<Str("Metric"), metric_value>> >>,
          "Value:Q", "Metric:N",
          [fmt |-> "{metric_name}: {metric_value}",
           args |-> <<metric_name, metric_value>>])
\* Case 1: a single numeric value, a bar chart
ScalarChart(metric_name, metric_value) ==
    Chart("bar", <<"Metric", "Value">>, << <<metric_name, metric_value>> >>,
          "Value:Q", "Metric:N",
          [fmt |-> "{metric_name}: {metric_value}",
           args |-> <<metric_name, metric_value>>])

\* Case 2: a list of numeric values, a line chart
SeriesChart(metric_name, metric_value) ==
    Chart("line", <<"Index", "Value">>, IndexRows(metric_value.items),
          "Index:Q", "Value:Q",
          [fmt |-> "Series: {metric_name}", args |-> <<metric_name>>])

\* Case 3, two lists of one length: a horizontal bar chart
PairedChart(metric_name, categories, values) ==
    Chart("bar", <<"Category", "Value">>, ZipRows(categories, values),
          "Value:Q", "Category:N",
          [fmt |-> "{metric_name}: Category vs. Value",
           args |-> <<metric_name>>])

\* Case 3, fallback: the dictionary's items as key-value pairs
FallbackChart(metric_name, metric_value) ==
    LET df == DataFrameRows(ItemRows(metric_value))
    IN  IF \A i \in 1..Len(df) : IsIntOrFloat(df[i][2])
        THEN Chart("bar", <<"Category", "Value">>, df,
                   "Category:N", "Value:Q",
                   [fmt |-> "Categorized Values: {metric_name}",
                    args |-> <<metric_name>>])
        ELSE None

\* the test of line 192: exactly two keys, both values lists
TwoLists(metric_value) ==
    /\ Len(metric_value.keys) = 2
    /\ IsList(metric_value.items[1])
    /\ IsList(metric_value.items[2])

\* line 198: the first list all strings, the second all numeric
StringsThenNumbers(list1, list2) == AllStr(list1) /\ AllIntOrFloat(list2)

NumbersThenStrings_FirstOnly(list1, list2) == AllIntOrFloat(list1)
\* line 209: the first list all numeric, the second all strings
NumbersThenStrings(list1, list2) == AllIntOrFloat(list1) /\ AllStr(list2)

SwappedChart_NotSwapped(metric_name, list1, list2) ==
    PairedChart(metric_name, list1, list2)
\* lines 210-219: the second list is the category, the first the value
SwappedChart(metric_name, list1, list2) ==
    PairedChart(metric_name, list2, list1)

\* Case 3
DictChart(metric_name, metric_value) ==
    LET list1 == metric_value.items[1].items
        list2 == metric_value.items[2].items
    IN  IF TwoLists(metric_value) /\ Len(list1) = Len(list2)
           /\ StringsThenNumbers(list1, list2)
        THEN PairedChart(metric_name, list1, list2)
        ELSE IF TwoLists(metric_value) /\ Len(list1) = Len(list2)
                /\ NumbersThenStrings(list1, list2)
        THEN SwappedChart(metric_name, list1, list2)
        ELSE FallbackChart(metric_name, metric_value)

create_plot_from_metric(m) ==
    LET metric_name  == Get(m, "name", Str("Unknown Metric"))
        metric_value == Get(m, "value", Null)
    IN  IF IsIntOrFloat(metric_value)
        THEN ScalarChart(metric_name, metric_value)
        ELSE IF IsList(metric_value) /\ AllIntOrFloat(metric_value.items)
        THEN SeriesChart(metric_name, metric_value)
        ELSE IF IsDict(metric_value)
        THEN DictChart(metric_name, metric_value)
        ELSE None

(***************************************************************************)
(* parse_mzqc                                                              *)
(***************************************************************************)
\* the default of the string fields
NA == Str("N/A")

\* The outcome of a call: the value returned, or the exception raised.
Returned(v) == [exc |-> "", value |-> v]
Raised(e)   == [exc |-> e]

ParsedRecord_SharedDefault(mzqc_root) ==
    [version                 |-> Get(mzqc_root, "version", NA),
     creation_date           |-> Get(mzqc_root, "creationDate", NA),
     description             |-> Get(mzqc_root, "description", NA),
     contact_name            |-> Get(mzqc_root, "contactName", NA),
     contact_address         |-> Get(mzqc_root, "contactAddress", NA),
     run_qualities           |-> Get(mzqc_root, "runQualities", EmptyList),
     set_qualities           |-> Get(mzqc_root, "setQualities",
                                     Get(mzqc_root, "runQualities", EmptyList)),
     controlled_vocabularies |-> Get(mzqc_root, "controlledVocabularies", EmptyList)]
\* the record parse_mzqc returns for the object under "mzQC"
ParsedRecord(mzqc_root) ==
    [version                 |-> Get(mzqc_root, "version", NA),
     creation_date           |-> Get(mzqc_root, "creationDate", NA),
     description             |-> Get(mzqc_root, "description", NA),
     contact_name            |-> Get(mzqc_root, "contactName", NA),
     contact_address         |-> Get(mzqc_root, "contactAddress", NA),
     run_qualities           |-> Get(mzqc_root, "runQualities", EmptyList),
     set_qualities           |-> Get(mzqc_root, "setQualities", EmptyList),
     controlled_vocabularies |-> Get(mzqc_root, "controlledVocabularies", EmptyList)]

\* .get exists on a dict only: on any other value the attribute lookup
\* raises AttributeError, for json_data (line 12) and for mzqc_root (line 15)
parse_mzqc(data) ==
    IF ~IsDict(data) THEN Raised("AttributeError")
    ELSE LET mzqc_root == Get(data, "mzQC", EmptyDict)
         IN  IF ~IsDict(mzqc_root) THEN Raised("AttributeError")
             ELSE Returned(ParsedRecord(mzqc_root))

(***************************************************************************)
(* The page: the elements a run of the script puts on it, in order         *)
(***************************************************************************)
Element(w, fmt, args) == [w |-> w, fmt |-> fmt, args |-> args]
Write(fmt, args)  == Element("write", fmt, args)
Subheader(fmt)    == Element("subheader", fmt, <<>>)
Info(fmt, args)   == Element("info", fmt, args)
AltairChart(c)    == [w |-> "altair_chart", chart |-> c]
Selectbox(quality_type, n, index) ==
    [w |-> "selectbox", label |-> quality_type, options |-> n, index |-> index]

\* What a piece of the script did: the elements it wrote and the exception
\* that ended it ("" when it ran to its end).
Ok(out)       == [out |-> out, exc |-> ""]
Raise(out, e) == [out |-> out, exc |-> e]
\* the pieces ts one after the other, up to the first that raised
RECURSIVE Steps(_)
Steps(ts) ==
    IF ts = <<>> THEN Ok(<<>>)
    ELSE IF Head(ts).exc # "" THEN Head(ts)
    ELSE LET rest == Steps(Tail(ts))
         IN  [out |-> Head(ts).out \o rest.out, exc |-> rest.exc]

\* bool(x)
Truthy(x) ==
    CASE x.t \in {"int", "float", "bool"} -> x.n # 0
      [] x.t = "str"  -> x.s # ""
      [] x.t = "list" -> x.items # <<>>
      [] x.t = "dict" -> x.keys # <<>>
      [] OTHER        -> FALSE

\* iter(x) and len(x) exist for a list, a str and a dict
Iterable(x) == x.t \in {"list", "str", "dict"}
PyLen(x) ==
    CASE x.t = "list" -> Len(x.items)
      [] x.t = "dict" -> Len(x.keys)
      [] x.t = "str"  -> Len(x.s)
\* What a for loop runs over: a list's items, a dict's keys, a str's
\* characters.  The loops below only call .get on an element, which a
\* one-character str fails, so one stand-in serves for every character.
IterItems(x) ==
    CASE x.t = "list" -> x.items
      [] x.t = "dict" -> [i \in 1..Len(x.keys) |-> Str(x.keys[i])]
      [] x.t = "str"  -> [i \in 1..Len(x.s) |-> Str("c")]

\* for i, x in enumerate(xs): the bodies of the loop, one per element, run
\* one after the other; a value that is not iterable raises TypeError
For(xs, bodies) ==
    IF ~Iterable(xs) THEN Raise(<<>>, "TypeError") ELSE Steps(bodies)
\* (bodies is looked at only for an iterable xs)

(***************************************************************************)
(* show_basic_info                                                         *)
(***************************************************************************)
ShowVocabulary(cv, i) ==
    IF ~IsDict(cv) THEN Raise(<<>>, "AttributeError")
    ELSE Ok(<<Write("- **Name:** {name}", <<Get(cv, "name", NA)>>),
              Write("  - **URI:** {uri}", <<Get(cv, "uri", NA)>>),
              Write("  - **Version:** {version}", <<Get(cv, "version", NA)>>)>>)
ShowVocabularies(xs) ==
    For(xs, [k \in 1..PyLen(xs) |-> ShowVocabulary(IterItems(xs)[k], k - 1)])

show_basic_info(parsed) ==
    Steps(<<Ok(<<Subheader("Basic mzQC Metadata"),
              Write("**Version:** {}", <<parsed.version>>),
              Write("**Creation Date:** {}", <<parsed.creation_date>>),
              Write("**Description:** {}", <<parsed.description>>),
              Write("**Contact Name:** {}", <<parsed.contact_name>>),
              Write("**Contact Address:** {}", <<parsed.contact_address>>),
              Write("**Controlled Vocabularies:**", <<>>)>>),
            ShowVocabularies(parsed.controlled_vocabularies)>>)

(***************************************************************************)
(* show_qualities                                                          *)
(***************************************************************************)
ShowProperty(prop, i) ==
    IF ~IsDict(prop) THEN Raise(<<>>, "AttributeError")
    ELSE Ok(<<Write("  - Property: {name} = {value}",
                    <<Get(prop, "name", NA), Get(prop, "value", NA)>>)>>)
ShowProperties(xs) ==
    For(xs, [k \in 1..PyLen(xs) |-> ShowProperty(IterItems(xs)[k], k - 1)])

\* lines 80-88: one input file
ShowInputFile(f, i) ==
    LET ff == Get(f, "fileFormat", EmptyDict)
    IN
    Steps(<<Ok(<<Write("**File {i+1}**", <<Int_(i + 1)>>)>>),
            IF ~IsDict(f) THEN Raise(<<>>, "AttributeError")
            ELSE Steps(<<
              Ok(<<Write("- Name: {}", <<Get(f, "name", NA)>>),
                   Write("- Location: {}", <<Get(f, "location", NA)>>)>>),
              IF ~IsDict(ff) THEN Raise(<<>>, "AttributeError")
              ELSE Ok(<<Write("- File Format: {name} ({accession})",
                              <<Get(ff, "name", NA), Get(ff, "accession", NA)>>)>>),
              IF IsDict(ff) /\ HasKey(f, "fileProperties")
              THEN ShowProperties(Item(f, "fileProperties"))
              ELSE Ok(<<>>)>>)>>)
ShowInputFiles(xs) ==
    For(xs, [k \in 1..PyLen(xs) |-> ShowInputFile(IterItems(xs)[k], k - 1)])

\* lines 94-99: one analysis software
ShowSoftware(sw, i) ==
    Steps(<<Ok(<<Write("**Software {i+1}**", <<Int_(i + 1)>>)>>),
            IF ~IsDict(sw) THEN Raise(<<>>, "AttributeError")
            ELSE Ok(<<Write("- Name: {name} ({accession})",
                            <<Get(sw, "name", NA), Get(sw, "accession", NA)>>),
                      Write("- Version: {}", <<Get(sw, "version", NA)>>),
                      Write("- URI: {}", <<Get(sw, "uri", NA)>>)>>
                    \o (IF HasKey(sw, "description")
                        THEN <<Write("- Description: {}",
                                     <<Item(sw, "description")>>)>>
                        ELSE <<>>))>>)
ShowSoftwares(xs) ==
    For(xs, [k \in 1..PyLen(xs) |-> ShowSoftware(IterItems(xs)[k], k - 1)])

ShowCvParameter(param, i) ==
    IF ~IsDict(param) THEN Raise(<<>>, "AttributeError")
    ELSE Ok(<<Write("- {name}: {value}",
                    <<Get(param, "name", NA), Get(param, "value", NA)>>)>>)
ShowCvParameters(xs) ==
    For(xs, [k \in 1..PyLen(xs) |-> ShowCvParameter(IterItems(xs)[k], k - 1)])

\* lines 74-111: the metadata of the selected quality
ShowMetadata(metadata) ==
    LET label     == Get(metadata, "label", Null)
        cv_params == Get(metadata, "cvParameters", EmptyList)
    IN
    IF ~IsDict(metadata) THEN Raise(<<>>, "AttributeError")
    ELSE Steps(<<
      Ok(<<Subheader("Input Files")>>),
      ShowInputFiles(Get(metadata, "inputFiles", EmptyList)),
      Ok(<<Subheader("Analysis Software")>>),
      ShowSoftwares(Get(metadata, "analysisSoftware", EmptyList)),
      Ok(IF Truthy(label) THEN <<Write("**Label:** {}", <<label>>)>> ELSE <<>>),
      Ok(IF Truthy(cv_params)
         THEN <<Subheader("Additional Metadata (cvParameters)")>> ELSE <<>>),
      IF Truthy(cv_params) THEN ShowCvParameters(cv_params) ELSE Ok(<<>>)>>)

\* lines 132-138: the metric's value, as text or as JSON
ShowValue(metric_value) ==
    IF metric_value.t \in {"int", "float", "bool", "str"}
    THEN <<Write("- **Value:** {}", <<metric_value>>)>>
    ELSE IF metric_value.t \in {"list", "dict"}
    THEN <<Write("- **Value (JSON):**", <<>>), Element("json", "", <<metric_value>>)>>
    ELSE <<Write("- **Value:** Unknown format", <<>>)>>

ShowUnitOfList(u, i) ==
    IF ~IsDict(u) THEN Raise(<<>>, "AttributeError")
    ELSE Ok(<<Write("  - {name} ({accession})",
                    <<Get(u, "name", NA), Get(u, "accession", NA)>>)>>)
ShowUnitsOfList(xs) ==
    For(xs, [k \in 1..PyLen(xs) |-> ShowUnitOfList(IterItems(xs)[k], k - 1)])

\* lines 141-148: the metric's unit, one object or a list of them
ShowUnit(unit) ==
    IF ~Truthy(unit) THEN Ok(<<>>)
    ELSE IF IsDict(unit)
    THEN Ok(<<Write("- **Unit:** {name} ({accession})",
                    <<Get(unit, "name", NA), Get(unit, "accession", NA)>>)>>)
    ELSE IF IsList(unit)
    THEN Steps(<<Ok(<<Write("- **Unit(s):**", <<>>)>>), ShowUnitsOfList(unit)>>)
    ELSE Ok(<<>>)

\* lines 151-153: the chart, when the selector returned one
ShowChart(plot) == IF plot # None THEN <<AltairChart(plot)>> ELSE <<>>

\* lines 122-153: one metric, and its chart when the selector returns one
ShowMetric(m, i) ==
    LET desc == Get(m, "description", Null)
    IN
    Steps(<<Ok(<<Element("markdown", "---", <<>>),
                 Write("**Metric {i+1}:**", <<Int_(i + 1)>>)>>),
            IF ~IsDict(m) THEN Raise(<<>>, "AttributeError")
            ELSE Steps(<<
              Ok(<<Write("- **Name:** {name} ({accession})",
                         <<Get(m, "name", NA), Get(m, "accession", NA)>>)>>
                 \o (IF Truthy(desc)
                     THEN <<Write("- **Description:** {}", <<desc>>)>> ELSE <<>>)
                 \o ShowValue(Get(m, "value", Null))),
              ShowUnit(Get(m, "unit", Null)),
              Ok(ShowChart(create_plot_from_metric(m)))>>)>>)
ShowMetrics(xs) ==
    For(xs, [k \in 1..PyLen(xs) |-> ShowMetric(IterItems(xs)[k], k - 1)])

\* lines 74-153: the selected quality
ShowQuality(quality) ==
    LET quality_metrics == Get(quality, "qualityMetrics", EmptyList)
    IN
    IF ~IsDict(quality) THEN Raise(<<>>, "AttributeError")
    ELSE Steps(<<
      ShowMetadata(Get(quality, "metadata", EmptyDict)),
      Ok(<<Subheader("Quality Metrics")>>),
      IF ~Truthy(quality_metrics)
      THEN Ok(<<Info("No quality metrics found.", <<>>)>>)
      ELSE ShowMetrics(quality_metrics)>>)

\* The state of one st.selectbox: the number of options it was drawn with
\* in the last run (0: it was not drawn) and the index chosen.  Streamlit
\* keeps the state of a widget that is drawn again with the same label and
\* options, and drops the state of a widget a run does not draw.
NoSelectbox == [options |-> 0, index |-> 0]
SelectedIndex(sel, n) == IF sel.options = n THEN sel.index ELSE 0

\* lines 70-153: the selectbox with n options and what follows it
ShowSelected(quality_type, n, index, rest) ==
    [out |-> <<Selectbox(quality_type, n, index)>> \o rest.out,
     exc |-> rest.exc,
     sel |-> [options |-> n, index |-> index]]

\* line 71: qualities[selection]; a dict of JSON has no integer key
SelectedQuality(qualities, index) ==
    IF IsDict(qualities) THEN Raise(<<>>, "KeyError")
    ELSE ShowQuality(IterItems(qualities)[index + 1])

\* lines 63-67: the header, and the note when there is no quality
ShowHeader(quality_type, n, rest) ==
    [out |-> <<Element("header", "{quality_type} ({len(qualities)} total)",
                       <<Str(quality_type), Int_(n)>>)>> \o rest.out,
     exc |-> rest.exc, sel |-> rest.sel]
NoneFound(quality_type) ==
    [out |-> <<Info("No {quality_type} found in this mzQC file.",
                    <<Str(quality_type)>>)>>,
     exc |-> "", sel |-> NoSelectbox]

\* show_qualities(qualities, quality_type) under the selectbox state sel:
\* what it wrote, the exception that ended it, the selectbox state it leaves
show_qualities(qualities, quality_type, sel) ==
    IF ~Iterable(qualities)
    THEN [out |-> <<>>, exc |-> "TypeError", sel |-> NoSelectbox]
    ELSE ShowHeader(quality_type, PyLen(qualities),
           IF PyLen(qualities) = 0 THEN NoneFound(quality_type)
           ELSE ShowSelected(quality_type, PyLen(qualities),
                  SelectedIndex(sel, PyLen(qualities)),
                  SelectedQuality(qualities,
                                  SelectedIndex(sel, PyLen(qualities)))))

(***************************************************************************)
(* main: one run of the script                                             *)
(***************************************************************************)
\* type=["json"] of st.file_uploader: the extensions the widget takes
AllowedTypes == {"json"}

\* An uploaded file: its extension and its text.  The text is stood for by
\* what json.load makes of it: a JSON value, or a JSONDecodeError.
File(ext, v)    == [ext |-> ext, valid |-> TRUE, json |-> v]
BadFile(ext)    == [ext |-> ext, valid |-> FALSE]
NoFile          == [ext |-> "", valid |-> FALSE]

\* json.load(uploaded_file)
json_load(f) == IF f.valid THEN Returned(f.json) ELSE Raised("JSONDecodeError")

NoSelection == [runQualities |-> NoSelectbox, setQualities |-> NoSelectbox]

\* lines 234-247: what every run draws first
PageTop ==
    <<Element("title", "mzQC Viewer", <<>>),
      Write("This app allows you to upload an **mzQC** JSON file, ...", <<>>),
      [w |-> "file_uploader", label |-> "Upload your mzQC file (JSON)",
       type |-> AllowedTypes]>>

\* lines 253-259: the three calls that draw the parsed document, each run
\* unless an earlier one raised
ShowAll(info, run, set) ==
    IF info.exc # ""
    THEN [out |-> info.out, exc |-> info.exc, sel |-> NoSelection]
    ELSE IF run.exc # ""
    THEN [out |-> info.out \o run.out, exc |-> run.exc,
          sel |-> [runQualities |-> run.sel, setQualities |-> NoSelectbox]]
    ELSE [out |-> info.out \o run.out \o set.out, exc |-> set.exc,
          sel |-> [runQualities |-> run.sel, setQualities |-> set.sel]]

ShowParsed(parsed, sel) ==
    ShowAll(show_basic_info(parsed),
            show_qualities(parsed.run_qualities, "runQualities", sel.runQualities),
            show_qualities(parsed.set_qualities, "setQualities", sel.setQualities))

\* the try statement left by an exception before anything was drawn
Failed(e) == [out |-> <<>>, exc |-> e, sel |-> NoSelection]

\* lines 250-259, the body of the try: what it wrote, the exception that
\* ended it and the selectbox states it leaves
AfterParse(p, sel) ==
    IF p.exc # "" THEN Failed(p.exc) ELSE ShowParsed(p.value, sel)
AfterLoad(data, sel) ==
    IF data.exc # "" THEN Failed(data.exc)
    ELSE AfterParse(parse_mzqc(data.value), sel)
TryBody(f, sel) == AfterLoad(json_load(f), sel)

Caught_KeyErrorOnly(e) == e = "KeyError"
\* except Exception as e: every exception the body raises is an Exception
Caught(e) == e \in {"JSONDecodeError", "AttributeError", "TypeError", "KeyError"}

\* line 262, or Streamlit's own report of an exception the script let out
OnException(e) ==
    IF e = "" THEN <<>>
    ELSE IF Caught(e)
    THEN <<Element("error", "Error parsing JSON: {e}", <<Str(e)>>)>>
    ELSE <<Element("exception", "uncaught", <<Str(e)>>)>>

\* the page of a run that went through the try statement
Page(body) ==
    [screen |-> PageTop \o body.out \o OnException(body.exc),
     selection |-> body.sel]

\* main() with f in the uploader and the selectbox states sel: the page it
\* draws and the selectbox states after the run
main(f, sel) ==
    IF f = NoFile THEN [screen |-> PageTop, selection |-> NoSelection]
    ELSE Page(TryBody(f, sel))

(***************************************************************************)
(* The inputs the model runs the program on                                *)
(***************************************************************************)
\* the longest list in a metric value
MaxLen == 2
\* the most entries in a metric value that is a mapping of scalars
MaxKeys == 2

Leaves == {Int_(1), Float_(2), Bool_(TRUE), Str("x"), Str("y"), Null}
Lists  == {List(xs) : xs \in UNION {[1..n -> Leaves] : n \in 0..MaxLen}}

\* mappings of two lists: the shape rule 3a looks at
ListPairs == {Dict(<<"a", "b">>, <<l1, l2>>) : l1 \in Lists, l2 \in Lists}

\* mappings of up to MaxKeys entries, in every order of their keys
KeyNames  == {"cat1", "cat2", "cat3"}
KeySeqs   == {ks \in UNION {[1..n -> KeyNames] : n \in 0..MaxKeys} :
                \A i, j \in 1..Len(ks) : i # j => ks[i] # ks[j]}
EntryValues == Leaves \cup {EmptyList, List(<<Int_(1)>>), EmptyDict}
Mappings  == UNION {{Dict(ks, xs) : xs \in [1..Len(ks) -> EntryValues]} :
                      ks \in KeySeqs}

MetricValues ==
    Leaves \cup Lists \cup {List(<<EmptyList>>), List(<<Int_(1), EmptyDict>>)}
           \cup ListPairs \cup Mappings

\* a metric with a name and a value, one without a name, one without a value
Metrics ==
    {Dict(<<"name", "value">>, <<Str("TIC"), v>>) : v \in MetricValues}
    \cup {Dict(<<"value">>, <<v>>) : v \in Leaves \cup {EmptyList, EmptyDict}}
    \cup {Dict(<<"name">>, <<Str("TIC")>>)}

\* the keys parse_mzqc reads, and a value for each
RootKeys == <<"version", "creationDate", "description", "contactName",
              "contactAddress", "runQualities", "setQualities",
              "controlledVocabularies">>
RootValue(k) ==
    CASE k = "version" -> Str("1.1.0")
      [] k = "creationDate" -> Str("2020-12-01")
      [] k = "description" -> Str("demo")
      [] k = "contactName" -> Str("Ann")
      [] k = "contactAddress" -> Str("ann@example.org")
      [] k = "runQualities" -> List(<<Dict(<<"qualityMetrics">>, <<EmptyList>>)>>)
      [] k = "setQualities" -> List(<<EmptyDict>>)
      [] k = "controlledVocabularies" -> List(<<Dict(<<"name">>, <<Str("QC")>>)>>)
\* the object under "mzQC" holding the keys of S, each with its value or,
\* when nulls is set, with null
Root(S, nulls) ==
    LET ks == SelectSeq(RootKeys, LAMBDA k : k \in S)
    IN  Dict(ks, [i \in 1..Len(ks) |-> IF nulls THEN Null ELSE RootValue(ks[i])])
Roots == {Root(S, nulls) : S \in SUBSET {RootKeys[i] : i \in 1..Len(RootKeys)},
                           nulls \in BOOLEAN}
Document(root) == Dict(<<"mzQC">>, <<root>>)

\* values that are not objects
NonObjects == {EmptyList, List(<<Int_(1)>>), Str("mzQC"), Int_(1), Float_(2),
               Bool_(TRUE), Null}

\* what json.load can hand to parse_mzqc: any JSON value
JsonDocuments ==
    NonObjects
    \cup {EmptyDict, Dict(<<"other">>, <<Int_(1)>>),
          Dict(<<"version">>, <<Str("1.1.0")>>)}
    \cup {Document(v) : v \in NonObjects}
    \cup {Document(r) : r \in Roots}
    \cup {Dict(<<"other", "mzQC">>, <<Int_(1), r>>) : r \in Roots}

\* the most qualities in a document of the session
MaxQualities == 2

Metric(name, v)  == Dict(<<"name", "value">>, <<Str(name), v>>)
Quality(ms)      == Dict(<<"qualityMetrics">>, <<List(ms)>>)
RunsOnly(qs)     == Document(Dict(<<"runQualities">>, <<qs>>))
RunsAndSets(qs, ss) ==
    Document(Dict(<<"runQualities", "setQualities">>, <<qs, ss>>))
\* n qualities, the i-th holding one metric of value base + i
Qualities(n, base) ==
    List([i \in 1..n |-> Quality(<<Metric("count", Int_(base + i))>>)])

\* a quality with every optional part present
FullQuality ==
    Dict(<<"metadata", "qualityMetrics">>,
         <<Dict(<<"inputFiles", "analysisSoftware", "label", "cvParameters">>,
                <<List(<<Dict(<<"name", "fileFormat", "fileProperties">>,
                              <<Str("run1.mzML"),
                                Dict(<<"name">>, <<Str("mzML")>>),
                                List(<<Dict(<<"name", "value">>,
                                            <<Str("size"), Int_(1)>>)>>)>>)>>),
                  List(<<Dict(<<"name", "description">>,
                              <<Str("tool"), Str("a tool")>>)>>),
                  Str("batch 1"),
                  List(<<Dict(<<"name">>, <<Str("param")>>)>>)>>),
           List(<<Dict(<<"name", "description", "value", "unit">>,
                       <<Str("TIC"), Str("total ion current"), Int_(2),
                         Dict(<<"name">>, <<Str("count")>>)>>),
                  Dict(<<"name", "value", "unit">>,
                       <<Str("RT"), List(<<Int_(1), Float_(2)>>),
                         List(<<Dict(<<"name">>, <<Str("second")>>)>>)>>)>>)>>)

\* metric values of the session's documents, one per rule of the selector
SessionValues ==
    {Int_(1), Bool_(TRUE), Str("x"), Null,
     List(<<Int_(1), Float_(2)>>), List(<<Str("x")>>),
     Dict(<<"a", "b">>, <<List(<<Str("x"), Str("y")>>), List(<<Int_(1), Float_(2)>>)>>),
     Dict(<<"cat1", "cat2">>, <<Int_(1), Float_(2)>>),
     Dict(<<"cat1", "cat2">>, <<Int_(1), Str("bad")>>)}

SessionDocuments ==
    {EmptyList, Str("mzQC"), Null, EmptyDict,
     Document(Null), Document(EmptyDict),
     Document(Root({"version", "description"}, FALSE)),
     Document(Root({RootKeys[i] : i \in 1..Len(RootKeys)}, FALSE)),
     Document(Root({RootKeys[i] : i \in 1..Len(RootKeys)}, TRUE)),
     RunsOnly(Int_(5)), RunsOnly(Str("ab")),
     RunsOnly(Dict(<<"0">>, <<EmptyDict>>)),
     RunsOnly(List(<<Int_(1)>>)),
     RunsOnly(List(<<Quality(<<Int_(1)>>)>>)),
     RunsOnly(List(<<Dict(<<"qualityMetrics">>, <<Int_(5)>>)>>)),
     RunsOnly(List(<<Dict(<<"metadata">>, <<Dict(<<"inputFiles">>, <<Str("f")>>)>>)>>)),
     RunsOnly(List(<<FullQuality>>))}
    \cup {RunsOnly(List(<<Quality(<<Metric("TIC", v)>>)>>)) : v \in SessionValues}
    \cup {RunsOnly(Qualities(n, base)) : n \in 1..MaxQualities, base \in {0, 10}}
    \cup {RunsAndSets(Qualities(n, 0), Qualities(k, 20)) :
            n \in 1..MaxQualities, k \in 1..MaxQualities}

Extensions == {"json", "mzqc"}
Files == {File(e, d) : e \in Extensions, d \in SessionDocuments}
         \cup {BadFile(e) : e \in Extensions}

(***************************************************************************)
(* The session: the user's actions, each followed by a run of the script   *)
(***************************************************************************)
NotCalled == [mark |-> "not called"]
Pending   == [exc |-> "not called"]

SessionIdle ==
    /\ uploaded_file = NoFile /\ offered = NoFile
    /\ selection = NoSelection /\ screen = PageTop
PlotIdle  == metric = EmptyDict /\ chart = NotCalled
ParseIdle == json_data = Null /\ parsed_data = Pending

\* the script runs again: the page and the widget states it leaves
Rerun(run) ==
    /\ screen' = run.screen
    /\ selection' = run.selection

\* the user gives the uploader a file it takes
Upload(f) ==
    /\ f.ext \in AllowedTypes
    /\ uploaded_file' = f
    /\ offered' = f
    /\ Rerun(main(f, selection))
    /\ UNCHANGED <<metric, chart, json_data, parsed_data>>

\* the user gives the uploader a file of another extension: the widget
\* refuses it and keeps what it holds
Refuse(f) ==
    /\ f.ext \notin AllowedTypes
    /\ offered' = f
    /\ UNCHANGED <<uploaded_file, selection, screen,
                   metric, chart, json_data, parsed_data>>

\* the user removes the file from the uploader
Remove ==
    /\ uploaded_file # NoFile
    /\ uploaded_file' = NoFile
    /\ offered' = NoFile
    /\ Rerun(main(NoFile, selection))
    /\ UNCHANGED <<metric, chart, json_data, parsed_data>>

\* the user picks another index in a selectbox the page shows
Select(quality_type, i) ==
    /\ i < selection[quality_type].options
    /\ i # selection[quality_type].index
    /\ Rerun(main(uploaded_file, [selection EXCEPT ![quality_type].index = i]))
    /\ UNCHANGED <<uploaded_file, offered, metric, chart, json_data, parsed_data>>

Init == SessionIdle /\ PlotIdle /\ ParseIdle

Next ==
    \/ \E f \in Files : Upload(f)
    \/ \E f \in Files : Refuse(f)
    \/ Remove
    \/ \E q \in {"runQualities", "setQualities"}, i \in 0..(MaxQualities - 1) :
          Select(q, i)

Spec == Init /\ [][Next]_vars

(***************************************************************************)
(* The selector and the parser on their own, over all the bounded inputs   *)
(***************************************************************************)
CallCreatePlot ==
    /\ chart = NotCalled
    /\ chart' = create_plot_from_metric(metric)
    /\ UNCHANGED <<metric, json_data, parsed_data,
                   uploaded_file, offered, selection, screen>>

PlotInit == metric \in Metrics /\ chart = NotCalled /\ ParseIdle /\ SessionIdle
PlotNext == CallCreatePlot
PlotSpec == PlotInit /\ [][PlotNext]_vars

CallParse ==
    /\ parsed_data = Pending
    /\ parsed_data' = parse_mzqc(json_data)
    /\ UNCHANGED <<metric, chart, json_data,
                   uploaded_file, offered, selection, screen>>

ParseInit == json_data \in JsonDocuments /\ parsed_data = Pending
             /\ PlotIdle /\ SessionIdle
ParseNext == CallParse
ParseSpec == ParseInit /\ [][ParseNext]_vars

(***************************************************************************)
(* The chart selector's result, in the words of the description            *)
(***************************************************************************)
Called   == chart # NotCalled
HasValue == HasKey(metric, "value")
Value    == Item(metric, "value")

IsScalarBar(c)   == c.mark = "bar" /\ c.columns = <<"Metric", "Value">>
IsSeriesLine(c)  == c.mark = "line" /\ c.columns = <<"Index", "Value">>
IsCategoryBar(c) == c.mark = "bar" /\ c.columns = <<"Category", "Value">>
\* the CategoryBar of the paired-list rule (3a) and that of the fallback (3b)
IsPairedBar(c)   == IsCategoryBar(c) /\ c.x = "Value:Q" /\ c.y = "Category:N"
IsFallbackBar(c) == IsCategoryBar(c) /\ c.x = "Category:N" /\ c.y = "Value:Q"
Unrenderable(c)  == c = None

AllNumbers(xs) == \A i \in 1..Len(xs) : xs[i].t \in {"int", "float"}
AllStrings(xs) == \A i \in 1..Len(xs) : xs[i].t = "str"
IsListPair(v)  == /\ v.t = "dict" /\ Len(v.keys) = 2
                  /\ v.items[1].t = "list" /\ v.items[2].t = "list"
\* the paired-list shape: two lists of one length, one of strings, one of numbers
IsPairedShape(v) ==
    /\ IsListPair(v)
    /\ Len(v.items[1].items) = Len(v.items[2].items)
    /\ \/ AllStrings(v.items[1].items) /\ AllNumbers(v.items[2].items)
       \/ AllNumbers(v.items[1].items) /\ AllStrings(v.items[2].items)
\* the same metric with the values of its two keys exchanged
Exchanged(m) ==
    Dict(m.keys, [i \in 1..Len(m.keys) |->
                    IF m.keys[i] = "value"
                    THEN Dict(m.items[i].keys, <<m.items[i].items[2], m.items[i].items[1]>>)
                    ELSE m.items[i]])

\* C1: a metric whose value is a plain number gets a ScalarBar of one row,
\* carrying that value and, as label, the metric's name.
C1_NumberGivesScalarBar ==
    (Called /\ HasValue /\ Value.t \in {"int", "float"}) =>
        /\ IsScalarBar(chart)
        /\ Len(chart.rows) = 1
        /\ chart.rows[1][2] = Value
        /\ HasKey(metric, "name") => chart.rows[1][1] = Item(metric, "name")

C1_Witness ==
    /\ Called /\ HasValue /\ Value = Float_(2) /\ HasKey(metric, "name")
    /\ IsScalarBar(chart)

\* C2: a list of numbers, the empty list included, gets a SeriesLine whose
\* i-th point is (i, v_i), counting from 0 in list order.
C2_NumberListGivesSeriesLine ==
    (Called /\ HasValue /\ Value.t = "list" /\ AllNumbers(Value.items)) =>
        /\ IsSeriesLine(chart)
        /\ Len(chart.rows) = Len(Value.items)
        /\ \A i \in 1..Len(Value.items) :
              chart.rows[i] = <<Int_(i - 1), Value.items[i]>>

C2_Witness ==
    /\ Called /\ HasValue /\ Value = List(<<Float_(2), Int_(1)>>)
    /\ IsSeriesLine(chart) /\ Len(chart.rows) = 2

\* C3: two keys holding a list of strings and a list of numbers of one
\* length give the CategoryBar of pairs (string_i, number_i), and the same
\* chart when the two keys exchange their lists.
C3_PairedListsGiveCategoryBar ==
    (Called /\ HasValue /\ IsPairedShape(Value)) =>
        LET l1 == Value.items[1].items
            l2 == Value.items[2].items
            strings == IF AllStrings(l1) /\ AllNumbers(l2) THEN l1 ELSE l2
            numbers == IF AllStrings(l1) /\ AllNumbers(l2) THEN l2 ELSE l1
        IN  /\ IsPairedBar(chart)
            /\ Len(chart.rows) = Len(strings)
            /\ \A i \in 1..Len(strings) : chart.rows[i] = <<strings[i], numbers[i]>>
            /\ chart = create_plot_from_metric(Exchanged(metric))

C3_Witness ==
    /\ Called /\ HasValue
    /\ Value = Dict(<<"a", "b">>, <<List(<<Int_(1), Float_(2)>>),
                                    List(<<Str("x"), Str("y")>>)>>)
    /\ chart.rows = << <<Str("x"), Int_(1)>>, <<Str("y"), Float_(2)>> >>

\* C4 as stated: two lists that are both all-numeric, or both all-string, or
\* of different lengths, empty lists included, never give the CategoryBar of
\* the paired-list rule; the fallback decides, and it finds no chart for
\* entries that are lists.
C4_AsStated ==
    (Called /\ HasValue /\ IsListPair(Value)
       /\ LET l1 == Value.items[1].items
              l2 == Value.items[2].items
          IN  \/ AllNumbers(l1) /\ AllNumbers(l2)
              \/ AllStrings(l1) /\ AllStrings(l2)
              \/ Len(l1) # Len(l2))
    => (~IsPairedBar(chart) /\ Unrenderable(chart))

\* C4 as amended: the same for lists of different lengths and for two lists
\* that are not both empty; two empty lists are at once all strings and all
\* numbers, match the paired-list rule and give a CategoryBar of no pairs.
C4_SameKindListsFallThrough ==
    /\ (Called /\ HasValue /\ IsListPair(Value)
          /\ LET l1 == Value.items[1].items
                 l2 == Value.items[2].items
             IN  \/ AllNumbers(l1) /\ AllNumbers(l2) /\ (l1 # <<>> \/ l2 # <<>>)
                 \/ AllStrings(l1) /\ AllStrings(l2) /\ (l1 # <<>> \/ l2 # <<>>)
                 \/ Len(l1) # Len(l2))
       => (~IsPairedBar(chart) /\ Unrenderable(chart))
    /\ (Called /\ HasValue /\ IsListPair(Value)
          /\ Value.items[1].items = <<>> /\ Value.items[2].items = <<>>)
       => (IsPairedBar(chart) /\ chart.rows = <<>>)

C4_Witness ==
    /\ Called /\ HasValue
    /\ Value = Dict(<<"a", "b">>, <<List(<<Int_(1)>>), List(<<Float_(2)>>)>>)
    /\ Unrenderable(chart)

\* C5: a mapping that is not of the paired-list shape gives the CategoryBar
\* of its (key, value) entries, in order, when every entry value is a
\* number, and no chart when any entry value is not a number.
C5_FallbackIffAllNumbers ==
    (Called /\ HasValue /\ Value.t = "dict" /\ ~IsPairedShape(Value)) =>
        IF AllNumbers(Value.items)
        THEN /\ IsFallbackBar(chart)
             /\ Len(chart.rows) = Len(Value.keys)
             /\ \A i \in 1..Len(Value.keys) :
                   chart.rows[i] = <<Str(Value.keys[i]), Value.items[i]>>
        ELSE Unrenderable(chart)

\* C6: a value that is no number, no list of numbers and no mapping (a
\* string, a list of strings or of mixed types, a missing value) gets no
\* chart.
C6_OtherValuesUnrenderable ==
    (Called /\ (~HasValue \/ (/\ Value.t \notin {"int", "float", "dict"}
                              /\ ~(Value.t = "list" /\ AllNumbers(Value.items)))))
    => Unrenderable(chart)

(***************************************************************************)
(* The parser                                                              *)
(***************************************************************************)
Parsed == parsed_data # Pending

\* C7: parse_mzqc returns a document, and does not raise, for every JSON
\* value.
C7_ParserNeverRaises == Parsed => parsed_data.exc = ""

\* the value of a field: what the object under "mzQC" holds for its key, or
\* the default of a key it does not hold
FieldIs(field, root, key, default) ==
    field = (IF \E i \in 1..Len(root.keys) : root.keys[i] = key
             THEN root.items[CHOOSE i \in 1..Len(root.keys) : root.keys[i] = key]
             ELSE default)
DefaultsApply(doc, root) ==
    /\ FieldIs(doc.version, root, "version", Str("N/A"))
    /\ FieldIs(doc.creation_date, root, "creationDate", Str("N/A"))
    /\ FieldIs(doc.description, root, "description", Str("N/A"))
    /\ FieldIs(doc.contact_name, root, "contactName", Str("N/A"))
    /\ FieldIs(doc.contact_address, root, "contactAddress", Str("N/A"))
    /\ FieldIs(doc.run_qualities, root, "runQualities", List(<<>>))
    /\ FieldIs(doc.set_qualities, root, "setQualities", List(<<>>))
    /\ FieldIs(doc.controlled_vocabularies, root, "controlledVocabularies", List(<<>>))

\* C8: of a JSON object without the "mzQC" key the parser makes the
\* document of all defaults, and under an "mzQC" object each missing field
\* takes its default whatever the other fields are.
C8_MissingFieldsTakeDefaults ==
    /\ (Parsed /\ json_data.t = "dict" /\ ~HasKey(json_data, "mzQC")) =>
          /\ parsed_data.exc = ""
          /\ DefaultsApply(parsed_data.value, Dict(<<>>, <<>>))
    /\ (Parsed /\ json_data.t = "dict" /\ HasKey(json_data, "mzQC")
          /\ Item(json_data, "mzQC").t = "dict") =>
          /\ parsed_data.exc = ""
          /\ DefaultsApply(parsed_data.value, Item(json_data, "mzQC"))

C8_Witness ==
    /\ Parsed /\ json_data = Dict(<<"other">>, <<Int_(1)>>)
    /\ parsed_data.exc = "" /\ parsed_data.value.version = Str("N/A")
    /\ parsed_data.value.set_qualities = List(<<>>)

(***************************************************************************)
(* The session                                                             *)
(***************************************************************************)
Errors(page) == {i \in 1..Len(page) : page[i].w = "error"}
Malformed(f) == f # NoFile /\ ~f.valid

\* with a file that is not JSON in the uploader the page holds, after what
\* every run draws, one error message and nothing else
OneErrorOnly ==
    Malformed(uploaded_file) =>
        /\ Len(screen) = Len(PageTop) + 1
        /\ Cardinality(Errors(screen)) = 1
        /\ \A i \in 1..Len(screen) : screen[i].w # "exception"

\* a valid upload after a failed one is drawn as it is in a new session
FreshAfterFailure ==
    (/\ Malformed(uploaded_file)
     /\ uploaded_file' # uploaded_file /\ uploaded_file'.valid)
    => /\ screen' = main(uploaded_file', NoSelection).screen
       /\ selection' = main(uploaded_file', NoSelection).selection

\* C9: an upload that is not valid JSON shows one error message and no
\* document, the session goes on, and the next valid upload is drawn from
\* that upload alone.
C9_MalformedUploadShowsOneError ==
    /\ [](OneErrorOnly)
    /\ [](Malformed(uploaded_file) => ENABLED (\E f \in Files : Upload(f)))
    /\ [][FreshAfterFailure]_vars

C9_Witness ==
    /\ Malformed(uploaded_file)
    /\ Cardinality(Errors(screen)) = 1

\* C10: the uploader takes a file named .json or .mzqc alike, so that
\* either is the file the script parses and draws.
C10_BothExtensionsAccepted ==
    (offered # NoFile /\ offered.ext \in {"json", "mzqc"}) => uploaded_file = offered

====
